---------------------------- MODULE Spec2Model ----------------------------
(***************************************************************************)
(* Model of r2: the ZigZag dependency graph (src/src/graph.rs) and the     *)
(* layered replication engine (src/src/replicate.rs).                      *)
(*                                                                         *)
(* Two specifications share the graph-generation actions:                  *)
(*   Spec      graph construction + Graph::parents queries                 *)
(*   SpecRepl  graph construction + the replication passes                 *)
(***************************************************************************)
EXTENDS Integers, Sequences, FiniteSets, TLC

(***************************************************************************)
(* Bounds of the model.                                                    *)
(***************************************************************************)
\* Largest node count given to Graph::new in Spec.
MaxNodes == 4
\* Largest expansion degree given to Graph::new in Spec.
MaxExpDegree == 2
\* Largest layer index passed to Graph::parents.
MaxLayer == 1
\* Raw outputs of the ChaCha generator range over 0..MaxRaw.
MaxRaw == 4
\* The Feistel permutation ranges over the bijections
\* x |-> (a*x + b) % size with a in 1..MaxFeistelMul coprime to size and
\* b in 0..MaxFeistelAdd.
MaxFeistelMul == 3
MaxFeistelAdd == 2
\* NODES, the node count of the sector that r2 replicates (at least 4: the
\* forward pass prefetches the nodes 0..3 and compares with NODES - 4).
NODES == 4
\* The initial store holds (v + i) % FrModulus at node i, v in 0..MaxNodeValue.
MaxNodeValue == 1
\* Replica identifiers range over 1..MaxReplicaId.
MaxReplicaId == 2
\* Graph seeds range over SeedOf(0)..SeedOf(MaxSeed).
MaxSeed == 1
\* gen_parents_cache is called at most MaxGenCalls times on a graph.
MaxGenCalls == 2
\* new_cached is called at most MaxCalls times.
MaxCalls == 3

(***************************************************************************)
(* Program constants.                                                      *)
(***************************************************************************)
\* let mut parents = [0; 5];
BASE_ARRAY == 5
\* create_key: "compile time fixed at 5 + 8 = 13 parents"
BASE_PARENTS == 5
EXP_PARENTS == 8
\* r2: "Generate a replica at each layer of the 10 layers"
LAYERS == 10
\* The order of the field Fr; a small odd prime stands for the order of the
\* BLS12-381 scalar field.
FrModulus == 5

(***************************************************************************)
(* Arithmetic helpers.                                                     *)
(***************************************************************************)
Min(a, b) == IF a < b THEN a ELSE b
Max(a, b) == IF a > b THEN a ELSE b

RECURSIVE Pow2(_)
Pow2(n) == IF n = 0 THEN 1 ELSE 2 * Pow2(n - 1)

\* ((x) as f32).log2().floor() as usize, for x >= 1
RECURSIVE Log2Floor(_)
Log2Floor(x) == IF x <= 1 THEN 0 ELSE 1 + Log2Floor(x \div 2)

RECURSIVE GCD(_, _)
GCD(a, b) == IF b = 0 THEN a ELSE GCD(b, a % b)

Range(s) == {s[i] : i \in 1..Len(s)}

Zeros(n) == [i \in 1..n |-> 0]

\* insertion of x into an ascending sequence
RECURSIVE InsertSorted(_, _)
InsertSorted(x, s) ==
    IF s = <<>> THEN <<x>>
    ELSE IF x <= Head(s) THEN <<x>> \o s
    ELSE <<Head(s)>> \o InsertSorted(x, Tail(s))

\* parents[0..m].sort_unstable()
RECURSIVE sort_unstable(_)
sort_unstable(s) == IF s = <<>> THEN <<>> ELSE InsertSorted(Head(s), sort_unstable(Tail(s)))

RECURSIVE SumLen(_, _)
SumLen(f, n) == IF n = 0 THEN 0 ELSE Len(f[n - 1]) + SumLen(f, n - 1)

VARIABLES
    nodes,              \* Graph.nodes
    base_degree,        \* Graph.base_degree
    expansion_degree,   \* Graph.expansion_degree
    bas,                \* Graph.bas
    exp,                \* Graph.exp
    exp_reversed,       \* Graph.exp_reversed
    seed,               \* Graph.seed
    pc,                 \* position of the program
    gnode,              \* loop variable `node` of gen_parents_cache
    fp,                 \* the FeistelPrecomputed value of gen_parents_cache
    qnode,              \* Graph::parents: argument node
    qlayer,             \* Graph::parents: argument layer
    ps,                 \* Graph::parents: the vector `ps` it builds
    out,                \* Graph::parents: the caller's slice `parents`
    replica_id,         \* r2: replica_id
    data,               \* the node store (AsyncData) of the run with real prefetch
    prefetched,         \* the read-ahead buffers the prefetch calls of that run filled
    dataNoop,           \* the node store of the same run with a no-op prefetch
    trace,              \* get_node / write_node calls of the current loop iteration
    traceNoop,          \* the same, of the run with a no-op prefetch
    written,            \* the node indices written in the current pass, in order
    hasher,             \* the macro's `hasher`, primed with the replica id
    keyHasher,          \* create_key's copy of the hasher, before finalize()
    key,                \* the key create_key returned
    keyNoop,            \* the same, of the run with a no-op prefetch
    rawNode,            \* the unencoded value of the node encoded last
    rnode,              \* loop variable `node` of the pass
    rlayer,             \* $layer of the pass
    revPass,            \* TRUE in replicate_layer_rev
    inR2,               \* TRUE while the pass was started by r2
    layersRun,          \* the layers r2 has replicated, in order
    chacha,             \* what ChaChaRng::from_seed has produced so far, per seed
    feistelTab,         \* what feistel::precompute has returned so far, per size
    gens,               \* the number of gen_parents_cache calls on the Graph so far
    graphs,             \* the number of Graph::new calls so far
    firstGraph,         \* the first Graph as its first gen_parents_cache call left it
    file,               \* the file g.json: <<>> if there is none, else <<its content>>
    cpc,                \* Graph::new_cached: where the call stands
    calls,              \* the number of new_cached calls so far
    argsDiffer          \* the last new_cached call was given other arguments than the first

graphVars == <<nodes, base_degree, expansion_degree, seed, bas, exp, exp_reversed>>
genVars == <<gnode, fp>>
queryVars == <<qnode, qlayer, ps, out>>
storeVars == <<data, prefetched, dataNoop>>
passVars == <<trace, traceNoop, written, hasher, keyHasher, key, keyNoop, rawNode,
              rnode, rlayer, revPass, inR2, layersRun>>
replVars == <<replica_id, storeVars, passVars>>
rngVars == <<chacha, feistelTab>>
histVars == <<gens, graphs, firstGraph>>
cacheVars == <<file, cpc, calls, argsDiffer>>
vars == <<graphVars, pc, genVars, queryVars, replVars, rngVars, histVars, cacheVars>>

\* the fields of the Graph
GraphValue ==
    [nodes |-> nodes, base_degree |-> base_degree,
     expansion_degree |-> expansion_degree, seed |-> seed,
     bas |-> bas, exp |-> exp, exp_reversed |-> exp_reversed]

NodeIds == 0..(nodes - 1)

(***************************************************************************)
(* bucketsample_parents                                                    *)
(***************************************************************************)
\* let logi = ((node * m) as f32).log2().floor() as usize;
Logi(node, m) == Log2Floor(node * m)

\* let j = rng.gen::<usize>() % logi;   (raw is the generator's output)
DrawJ(raw, node, m) == raw % Logi(node, m)

\* let jj = cmp::min(node * m + k, 1 << (j + 1));
JJ(node, m, k, j) == Min(node * m + k, Pow2(j + 1))

\* rng.gen_range(low, high): low + raw % (high - low), for low < high
GenRange(raw, low, high) == low + (raw % (high - low))

\* faulty variant: the range of the distance is one too wide
BackDist_wide(raw, jj) == GenRange(raw, Max(jj \div 2, 2), jj + 2)

\* let back_dist = rng.gen_range(cmp::max(jj >> 1, 2), jj + 1);
BackDist(raw, jj) == GenRange(raw, Max(jj \div 2, 2), jj + 1)

\* let out = (node * m + k - back_dist) / m;
Candidate(node, m, k, raw1, raw2) ==
    (node * m + k - BackDist(raw2, JJ(node, m, k, DrawJ(raw1, node, m)))) \div m

\* the candidates the two draws of iteration k can produce
Candidates(node, m, k) ==
    {Candidate(node, m, k, r1, r2) : r1 \in 0..MaxRaw, r2 \in 0..MaxRaw}

\* the values `out` takes in the iterations 0..k-1 of the loop, as the
\* sequences the draws can produce (the nodes 0 and 1 draw nothing)
RECURSIVE CandidateSeqs(_, _, _)
CandidateSeqs(node, m, k) ==
    IF k = 0 THEN {<<>>}
    ELSE {Append(s, c) : s \in CandidateSeqs(node, m, k - 1),
                         c \in IF node < 2 THEN {0} ELSE Candidates(node, m, k - 1)}

\* faulty variant: the generator's seed also takes in how many graphs were built
rng_seed_counted(sd, node) == sd \o <<node, graphs>>

\* seed[0..7].copy_from_slice(&g.seed); seed[7] = node as u32;
rng_seed(sd, node) == sd \o <<node>>

\* ChaChaRng::from_seed(&seed) yields the same outputs for the same seed:
\* a generator seeded with rs has sampled a node of degree m before
Drawn(rs, m) == <<rs, m>> \in DOMAIN chacha

Remember(tab, k, v) == [x \in DOMAIN tab \cup {k} |-> IF x = k THEN v ELSE tab[x]]

\* faulty variant: the self reference is kept
SelfParent(node, cand) == cand

\* if out == node { node - 1 } else { assert!(out <= node); out }
Parent(node, cand) == IF cand = node THEN node - 1 ELSE cand

\* The vector bucketsample_parents returns for `node`, where cands[k + 1] is
\* the candidate of iteration k (ignored for nodes 0 and 1): the 5-slot array
\* whose first m slots are the sorted parents.
bucketsample_parents(node, m, cands) ==
    IF node \in {0, 1} THEN Zeros(BASE_ARRAY)
    ELSE sort_unstable([k \in 1..m |-> Parent(node, cands[k])])
         \o Zeros(BASE_ARRAY - m)

(***************************************************************************)
(* expander_parents                                                        *)
(***************************************************************************)
\* feistel::precompute(size): the permutations of [0, size) it may stand for
FeistelPrecomputed(size) ==
    IF size = 0 THEN {[a |-> 1, b |-> 0]}
    ELSE {[a |-> a, b |-> b] : a \in {x \in 1..MaxFeistelMul : GCD(x, size) = 1},
                               b \in 0..MaxFeistelAdd}

\* faulty variant: the permutation folds the indices onto the lower half
invert_permute_folded(size, index, pre) ==
    (pre.a * index + pre.b) % Max(size \div 2, 1)

\* feistel::invert_permute(size, index, keys, precomputed): a bijection of
\* 0..size-1
invert_permute(size, index, pre) == (pre.a * index + pre.b) % size

\* faulty variant: the filter keeps a parent equal to the node
expander_parents_le(node, n, d, pre) ==
    SelectSeq([i \in 1..d |-> invert_permute(n * d, node * d + (i - 1), pre) \div d],
              LAMBDA p : p <= node)

expander_parents(node, n, d, pre) ==
    SelectSeq([i \in 1..d |-> invert_permute(n * d, node * d + (i - 1), pre) \div d],
              LAMBDA p : p < node)

(***************************************************************************)
(* Graph::new, Graph::gen_parents_cache                                    *)
(***************************************************************************)
\* Graph::new(nodes, base_degree, expansion_degree, seed)
GraphNew(n, m, d) ==
    /\ nodes = n
    /\ base_degree = m
    /\ expansion_degree = d
    /\ bas = [i \in 0..(n - 1) |-> <<>>]
    /\ exp = [i \in 0..(n - 1) |-> <<>>]
    /\ exp_reversed = [i \in 0..(n - 1) |-> <<>>]
    /\ pc = "new"
    /\ gnode = 0
    /\ fp = [a |-> 1, b |-> 0]

\* self.exp_reversed[*n2].push(n1) for every n2 of v
RECURSIVE PushAll(_, _, _)
PushAll(rev, n1, v) ==
    IF v = <<>> THEN rev
    ELSE PushAll([rev EXCEPT ![Head(v)] = Append(@, n1)], n1, Tail(v))

\* faulty variant: the edge is stored at the source instead of the target
RECURSIVE ReverseEdgesSwapped(_, _, _, _)
ReverseEdgesSwapped(rev, e, n1, n) ==
    IF n1 = n THEN rev
    ELSE ReverseEdgesSwapped([rev EXCEPT ![n1] = @ \o e[n1]], e, n1 + 1, n)

\* for (n1, v) in self.exp.iter().enumerate() { for n2 in v { ... } }
RECURSIVE ReverseEdges(_, _, _, _)
ReverseEdges(rev, e, n1, n) ==
    IF n1 = n THEN rev
    ELSE ReverseEdges(PushAll(rev, n1, e[n1]), e, n1 + 1, n)

\* gen_parents_cache: let fp = feistel::precompute(...); the precomputation
\* is a function of the size (the round keys are fixed)
GenEnter ==
    /\ LET size == expansion_degree * nodes
       IN  \E pre \in FeistelPrecomputed(size) :
              /\ size \in DOMAIN feistelTab => pre = feistelTab[size]
              /\ fp' = pre
              /\ feistelTab' = Remember(feistelTab, size, pre)
    /\ gnode' = 0
    /\ gens' = gens + 1
    /\ pc' = "gen"
    /\ UNCHANGED <<graphVars, queryVars, replVars, chacha, graphs, firstGraph, cacheVars>>

GenBegin ==
    /\ pc = "new"
    /\ GenEnter

\* self.bas[node] = bucketsample_parents(..);
\* self.exp[node] = expander_parents(..);  and the loop goes on
NodeFilled(sampled) ==
    /\ bas' = [bas EXCEPT ![gnode] = sampled]
    /\ exp' = [exp EXCEPT ![gnode] =
                 expander_parents(gnode, nodes, expansion_degree, fp)]
    /\ gnode' = gnode + 1
    /\ pc' = IF gnode + 1 = nodes THEN "reverse" ELSE "gen"

\* gen_parents_cache: one iteration of `for node in 0..self.nodes`.
\* A generator seeded as one before yields the outputs of that one, so
\* the node is sampled as it was then.
\* cands[k + 1] is the value of `out` in iteration k of bucketsample_parents;
\* an underflow of node * m + k - back_dist (a panic in a debug build, a huge
\* value in a release build) or out > node (the assert) aborts the program.
GenNode ==
    /\ pc = "gen"
    /\ gnode < nodes
    /\ IF gnode >= 2 /\ Drawn(rng_seed(seed, gnode), base_degree)
       THEN /\ NodeFilled(chacha[<<rng_seed(seed, gnode), base_degree>>])
            /\ chacha' = chacha
       ELSE \E cands \in CandidateSeqs(gnode, base_degree, base_degree) :
          IF \E k \in 1..base_degree : cands[k] < 0 \/ cands[k] > gnode
          THEN /\ pc' = "abort_sample"
               /\ UNCHANGED <<bas, exp, gnode, chacha>>
          ELSE /\ NodeFilled(bucketsample_parents(gnode, base_degree, cands))
               /\ IF gnode < 2 THEN chacha' = chacha
                  ELSE chacha' = Remember(chacha, <<rng_seed(seed, gnode), base_degree>>,
                                          bas'[gnode])
    /\ UNCHANGED <<nodes, base_degree, expansion_degree, seed, exp_reversed, fp,
                   queryVars, replVars, feistelTab, histVars, cacheVars>>

\* gen_parents_cache: the second loop, caching the reverse expander edges
GenReverse ==
    /\ pc = "reverse"
    /\ exp_reversed' = ReverseEdges(exp_reversed, exp, 0, nodes)
    /\ pc' = "ready"
    /\ UNCHANGED <<nodes, base_degree, expansion_degree, seed, bas, exp, genVars,
                   queryVars, replVars, rngVars, gens, graphs, cacheVars>>
    /\ firstGraph' = IF graphs = 1 /\ gens = 1 THEN GraphValue' ELSE firstGraph

(***************************************************************************)
(* Graph::parents, pad_parents, Graph::degree                              *)
(***************************************************************************)
degree == base_degree + expansion_degree

pad_parents(v, size) == IF Len(v) < size THEN v \o Zeros(size - Len(v)) ELSE v

\* faulty variant: the reflected DRG list is sorted again
base_parents_resorted(node, layer) ==
    IF layer % 2 = 0 THEN bas[node]
    ELSE sort_unstable([i \in 1..Len(bas[nodes - node - 1]) |->
                     nodes - bas[nodes - node - 1][i] - 1])

base_parents(node, layer) ==
    IF layer % 2 = 0 THEN bas[node]
    ELSE [i \in 1..Len(bas[nodes - node - 1]) |->
             nodes - bas[nodes - node - 1][i] - 1]

exp_parents(node, layer) ==
    IF layer % 2 = 0 THEN exp[node] ELSE exp_reversed[node]

\* the vector `ps` Graph::parents builds
parents(node, layer) ==
    pad_parents(base_parents(node, layer), base_degree)
    \o pad_parents(exp_parents(node, layer), expansion_degree)

\* Graph::parents(node, layer, parents): assert_eq!(ps.len(), self.degree())
\* aborts the program; otherwise the caller's slice receives ps.
ParentsCall ==
    /\ pc = "ready"
    /\ \E node \in NodeIds, layer \in 0..MaxLayer :
          /\ qnode' = node
          /\ qlayer' = layer
          /\ ps' = parents(node, layer)
          /\ IF Len(parents(node, layer)) = degree
                THEN /\ out' = parents(node, layer)
                     /\ pc' = "ready"
                ELSE /\ out' = out
                     /\ pc' = "abort_parents"
    /\ UNCHANGED <<graphVars, genVars, replVars, rngVars, histVars, cacheVars>>

(***************************************************************************)
(* Specification of graph construction and parent queries.                 *)
(***************************************************************************)
\* the seeds given to Graph::new: seven words each
SeedOf(s) == [i \in 1..7 |-> 9 * s * i]
Seeds == {SeedOf(s) : s \in 0..MaxSeed}

\* nothing was drawn or precomputed and gen_parents_cache was not called
FreshProcess ==
    /\ chacha = <<>>
    /\ feistelTab = <<>>
    /\ gens = 0
    /\ firstGraph = <<>>

\* new_cached was not called and there is no g.json
CacheIdle ==
    /\ file = <<>>
    /\ cpc = "idle"
    /\ calls = 0
    /\ argsDiffer = FALSE

\* no Graph::parents call was made
QueryIdle ==
    /\ qnode = 0
    /\ qlayer = 0
    /\ ps = <<>>
    /\ out = <<>>

\* r2 has not been given a store
StoreIdle ==
    /\ replica_id = 0
    /\ data = <<>>
    /\ prefetched = <<>>
    /\ dataNoop = <<>>

\* no pass of the replication has started
PassIdle ==
    /\ trace = <<>>
    /\ traceNoop = <<>>
    /\ written = <<>>
    /\ hasher = <<>>
    /\ keyHasher = <<>>
    /\ key = 0
    /\ keyNoop = 0
    /\ rawNode = 0
    /\ rnode = 0
    /\ rlayer = 0
    /\ revPass = FALSE
    /\ inR2 = FALSE
    /\ layersRun = <<>>

Init ==
    /\ \E n \in 1..MaxNodes, m \in 1..BASE_ARRAY, d \in 0..MaxExpDegree :
          GraphNew(n, m, d)
    /\ seed = SeedOf(0)
    /\ graphs = 1
    /\ FreshProcess
    /\ CacheIdle
    /\ QueryIdle
    /\ StoreIdle
    /\ PassIdle

Next == GenBegin \/ GenNode \/ GenReverse \/ ParentsCall

Spec == Init /\ [][Next]_vars

(***************************************************************************)
(* Specification of repeated generation: after the first gen_parents_cache *)
(* call the program calls it again on the same graph, or constructs a      *)
(* second graph with the same inputs and generates that one.               *)
(***************************************************************************)
\* Graph::new(n, m, d, sd), as a step of the program
GraphNewStep(n, m, d, sd) ==
    /\ nodes' = n
    /\ base_degree' = m
    /\ expansion_degree' = d
    /\ seed' = sd
    /\ bas' = [i \in 0..(n - 1) |-> <<>>]
    /\ exp' = [i \in 0..(n - 1) |-> <<>>]
    /\ exp_reversed' = [i \in 0..(n - 1) |-> <<>>]
    /\ pc' = "new"
    /\ gnode' = 0
    /\ fp' = [a |-> 1, b |-> 0]
    /\ gens' = 0
    /\ graphs' = graphs + 1

\* gen_parents_cache called on a graph it has already filled
GenAgain ==
    /\ pc = "ready"
    /\ gens < MaxGenCalls
    /\ GenEnter

\* a second Graph::new, with the inputs of the first
GraphNewAgain ==
    /\ pc = "ready"
    /\ graphs = 1
    /\ GraphNewStep(nodes, base_degree, expansion_degree, seed)
    /\ UNCHANGED <<queryVars, replVars, rngVars, firstGraph, cacheVars>>

InitTwice ==
    /\ \E n \in 1..MaxNodes, m \in 1..BASE_ARRAY, d \in 0..MaxExpDegree :
          GraphNew(n, m, d)
    /\ seed = SeedOf(MaxSeed)
    /\ graphs = 1
    /\ FreshProcess
    /\ CacheIdle
    /\ QueryIdle
    /\ StoreIdle
    /\ PassIdle

NextTwice == GenBegin \/ GenNode \/ GenReverse \/ GenAgain \/ GraphNewAgain

SpecTwice == InitTwice /\ [][NextTwice]_vars

(***************************************************************************)
(* Graph::new_cached: the graph is generated and written to g.json if the  *)
(* file does not exist, and read from it otherwise.                        *)
(***************************************************************************)
\* a number as serde_json writes it: its decimal digits
RECURSIVE Digits(_)
Digits(n) == IF n < 10 THEN <<n>> ELSE Append(Digits(n \div 10), n % 10)

\* the number serde_json reads from decimal digits
RECURSIVE Number(_)
Number(ds) ==
    IF Len(ds) = 1 THEN ds[1]
    ELSE 10 * Number(SubSeq(ds, 1, Len(ds) - 1)) + ds[Len(ds)]

\* a Vec<usize> or [u32; 7] as a JSON array of numbers, and back
JsonNumbers(v) == [i \in 1..Len(v) |-> Digits(v[i])]
ParseNumbers(t) == [i \in 1..Len(t) |-> Number(t[i])]

\* a Vec<Vec<usize>> (indexed from 0) as a JSON array of arrays, and back
JsonLists(f) == [i \in 1..Cardinality(DOMAIN f) |-> JsonNumbers(f[i - 1])]
ParseLists(t) == [i \in 0..(Len(t) - 1) |-> ParseNumbers(t[i + 1])]

\* faulty variant: exp_reversed is left out of the document and read back empty
to_string_skipping(gg) ==
    [nodes |-> Digits(gg.nodes),
     base_degree |-> Digits(gg.base_degree),
     expansion_degree |-> Digits(gg.expansion_degree),
     seed |-> JsonNumbers(gg.seed),
     bas |-> JsonLists(gg.bas),
     exp |-> JsonLists(gg.exp),
     exp_reversed |-> <<>>]

\* serde_json::to_string(&gg): the derived Serialize writes every field
to_string(gg) ==
    [nodes |-> Digits(gg.nodes),
     base_degree |-> Digits(gg.base_degree),
     expansion_degree |-> Digits(gg.expansion_degree),
     seed |-> JsonNumbers(gg.seed),
     bas |-> JsonLists(gg.bas),
     exp |-> JsonLists(gg.exp),
     exp_reversed |-> JsonLists(gg.exp_reversed)]

\* serde_json::from_str::<Graph>(&json): the derived Deserialize reads every field
from_str(json) ==
    [nodes |-> Number(json.nodes),
     base_degree |-> Number(json.base_degree),
     expansion_degree |-> Number(json.expansion_degree),
     seed |-> ParseNumbers(json.seed),
     bas |-> ParseLists(json.bas),
     exp |-> ParseLists(json.exp),
     exp_reversed |-> ParseLists(json.exp_reversed)]

\* faulty variant: the file is never found
cache_missing(f) == FALSE

\* metadata("g.json") is Ok
cache_exists(f) == f # <<>>

\* the arguments new_cached is called with
CallArgs ==
    [nodes : 1..(MaxNodes - 1), base_degree : {1, BASE_ARRAY},
     expansion_degree : 0..MaxExpDegree, seed : Seeds]

\* the arguments the first graph was constructed with
FirstArgs ==
    [nodes |-> firstGraph.nodes, base_degree |-> firstGraph.base_degree,
     expansion_degree |-> firstGraph.expansion_degree, seed |-> firstGraph.seed]

\* new_cached, no g.json: let mut gg = Graph::new(..); gen_parents_cache follows
NewCachedMiss ==
    /\ cpc \in {"idle", "returned"}
    /\ calls < MaxCalls
    /\ ~cache_exists(file)
    /\ \E args \in CallArgs :
          /\ GraphNewStep(args.nodes, args.base_degree, args.expansion_degree, args.seed)
          /\ argsDiffer' = (calls > 0 /\ args # FirstArgs)
    /\ cpc' = "miss"
    /\ calls' = calls + 1
    /\ UNCHANGED <<queryVars, replVars, rngVars, firstGraph, file>>

\* new_cached after gen_parents_cache: File::create("g.json"),
\* write!(f, "{}\n", serde_json::to_string(&gg)), and gg is returned
NewCachedSave ==
    /\ cpc = "miss"
    /\ pc = "ready"
    /\ file' = <<[json |-> to_string(GraphValue), tail |-> "\n"]>>
    /\ cpc' = "returned"
    /\ UNCHANGED <<graphVars, pc, genVars, queryVars, replVars, rngVars, histVars,
                   calls, argsDiffer>>

\* new_cached, g.json exists: the file is read and the graph in it is
\* returned; the arguments are not used
NewCachedHit ==
    /\ cpc \in {"idle", "returned"}
    /\ calls < MaxCalls
    /\ cache_exists(file)
    /\ LET gg == from_str(file[1].json)
       IN  /\ nodes' = gg.nodes
           /\ base_degree' = gg.base_degree
           /\ expansion_degree' = gg.expansion_degree
           /\ seed' = gg.seed
           /\ bas' = gg.bas
           /\ exp' = gg.exp
           /\ exp_reversed' = gg.exp_reversed
    /\ \E args \in CallArgs : argsDiffer' = (args # FirstArgs)
    /\ gens' = 0
    /\ pc' = "ready"
    /\ cpc' = "returned"
    /\ calls' = calls + 1
    /\ UNCHANGED <<genVars, queryVars, replVars, rngVars, graphs, firstGraph, file>>

\* the process starts without a graph and without g.json
InitCache ==
    /\ nodes = 0
    /\ base_degree = 0
    /\ expansion_degree = 0
    /\ seed = SeedOf(0)
    /\ bas = <<>>
    /\ exp = <<>>
    /\ exp_reversed = <<>>
    /\ pc = "start"
    /\ gnode = 0
    /\ fp = [a |-> 1, b |-> 0]
    /\ graphs = 0
    /\ FreshProcess
    /\ CacheIdle
    /\ QueryIdle
    /\ StoreIdle
    /\ PassIdle

NextCache ==
    \/ NewCachedMiss \/ GenBegin \/ GenNode \/ GenReverse \/ NewCachedSave
    \/ NewCachedHit

SpecCache == InitCache /\ [][NextCache]_vars


(***************************************************************************)
(* The node store (AsyncData), the digest and the field.                   *)
(***************************************************************************)
\* faulty variant: a read is served from a read-ahead buffer filled before the write
get_node_stale(d, pf, i) ==
    IF \E n \in 1..Len(pf) : pf[n].index = i
    THEN pf[CHOOSE n \in 1..Len(pf) : pf[n].index = i].bytes
    ELSE d[i]

\* data.get_node(index): the bytes stored at index
get_node(d, pf, i) == d[i]

\* data.write_node(index, bytes)
write_node(d, i, bytes) == [d EXCEPT ![i] = bytes]

\* data.prefetch(index, direction): starts reading the node ahead of its use
prefetch(d, pf, i, direction) ==
    Append(pf, [index |-> i, rev |-> direction, bytes |-> d[i]])

\* the same call on a store whose prefetch does nothing
prefetch_noop(d, pf, i, direction) == pf

\* hasher.update(bytes)
update(h, bytes) == Append(h, bytes)

\* bytes_into_fr_repr_safe(hasher.finalize()): a function of everything the
\* digest absorbed, in the order it absorbed it
RECURSIVE finalize_into_fr(_)
finalize_into_fr(h) ==
    IF h = <<>> THEN 0
    ELSE (2 * finalize_into_fr(SubSeq(h, 1, Len(h) - 1)) + h[Len(h)] + 1) % FrModulus

\* faulty variant: the sum is not reduced into the field
add_assign_clamped(v, k) == Min(v + k, FrModulus - 1)

\* node_fr.add_assign(&key.into())
add_assign(v, k) == (v + k) % FrModulus

(***************************************************************************)
(* ParentsIter, ParentsIterRev and the next_* macros.                      *)
(***************************************************************************)
\* ParentsIter::new(graph, node): the parent vector of an even layer
ParentsIter(node) == parents(node, 0)

\* ParentsIterRev::new(graph, node): the parent vector of an odd layer
ParentsIterRev(node) == parents(node, 1)

\* next_base!(parents, i), next_base_rev!(parents, i), next_exp!(parents, i):
\* the parent at position i of the vector
next_base(pv, i) == pv[i + 1]
next_base_rev(pv, i) == pv[i + 1]
next_exp(pv, i) == pv[i + 1]

(***************************************************************************)
(* create_key, create_key_rev and the encoding step.                       *)
(***************************************************************************)
\* the digest after folding the nodes idx[1], idx[2], ... in this order
RECURSIVE Fold(_, _, _, _)
Fold(h, idx, d, pf) ==
    IF idx = <<>> THEN h
    ELSE Fold(update(h, get_node(d, pf, Head(idx))), Tail(idx), d, pf)

Gets(idx) == [k \in 1..Len(idx) |-> <<"get", idx[k]>>]

\* faulty variant: the expander positions are folded before the DRG positions
create_key_exp_first(pv, d, pf, h) ==
    LET idx == [k \in 1..EXP_PARENTS |-> next_exp(pv, BASE_PARENTS + k - 1)]
               \o [k \in 1..BASE_PARENTS |-> next_base(pv, k - 1)]
    IN  [hasher |-> Fold(h, idx, d, pf), events |-> Gets(idx)]

\* create_key(parents, node, data, hasher): positions 0..4 with next_base!,
\* then positions 5..12 with next_exp!
create_key(pv, d, pf, h) ==
    LET idx == [k \in 1..BASE_PARENTS |-> next_base(pv, k - 1)]
               \o [k \in 1..EXP_PARENTS |-> next_exp(pv, BASE_PARENTS + k - 1)]
    IN  [hasher |-> Fold(h, idx, d, pf), events |-> Gets(idx)]

\* create_key_rev(parents, node, data, hasher)
create_key_rev(pv, d, pf, h) ==
    LET idx == [k \in 1..BASE_PARENTS |-> next_base_rev(pv, k - 1)]
               \o [k \in 1..EXP_PARENTS |-> next_exp(pv, BASE_PARENTS + k - 1)]
    IN  [hasher |-> Fold(h, idx, d, pf), events |-> Gets(idx)]

\* faulty variant: the encoded node is stored at the next position
encode_node_next(d, pf, node, k) ==
    LET raw == get_node(d, pf, node)
        to == (node + 1) % NODES
    IN  [raw |-> raw,
         data |-> write_node(d, to, add_assign(raw, k)),
         events |-> << <<"get", node>>, <<"write", to>> >>]

\* get the unencoded node, add the key to it, store the encoded node
encode_node(d, pf, node, k) ==
    LET raw == get_node(d, pf, node)
    IN  [raw |-> raw,
         data |-> write_node(d, node, add_assign(raw, k)),
         events |-> << <<"get", node>>, <<"write", node>> >>]

\* the indices written by a sequence of store calls
RECURSIVE Writes(_)
Writes(ev) ==
    IF ev = <<>> THEN <<>>
    ELSE (IF Head(ev)[1] = "write" THEN <<Head(ev)[2]>> ELSE <<>>) \o Writes(Tail(ev))

(***************************************************************************)
(* replicate_layer!, replicate_layer_rev! and r2                           *)
(***************************************************************************)
\* data.prefetch(0, ..); data.prefetch(1, ..); ... for the indices of `first`
RECURSIVE PrefetchAll(_, _, _, _)
PrefetchAll(d, pf, first, direction) ==
    IF first = <<>> THEN pf
    ELSE PrefetchAll(d, prefetch(d, pf, Head(first), direction), Tail(first), direction)

\* faulty variant: the look-ahead stops one node early
PrefetchAhead_short(d, pf, node, ahead, direction) ==
    IF node < NODES - ahead - 1 THEN prefetch(d, pf, node + ahead, direction) ELSE pf

\* if node < NODES - ahead { data.prefetch(node + ahead, direction); }
PrefetchAhead(d, pf, node, ahead, direction) ==
    IF node < NODES - ahead THEN prefetch(d, pf, node + ahead, direction) ELSE pf

\* The head of a pass: the hasher is primed with the replica id and the
\* first nodes are prefetched.
PassBegin(id, store, l, direction, first) ==
    /\ replica_id' = id
    /\ data' = store
    /\ dataNoop' = store
    /\ hasher' = update(<<>>, id)
    /\ prefetched' = PrefetchAll(store, <<>>, first, direction)
    /\ rlayer' = l
    /\ revPass' = direction
    /\ rnode' = 0
    /\ trace' = <<>>
    /\ traceNoop' = <<>>
    /\ written' = <<>>
    /\ pc' = "key"
    /\ UNCHANGED <<graphVars, genVars, queryVars, keyHasher, key, keyNoop, rawNode,
                   rngVars, histVars, cacheVars>>

\* the replica identifiers and the initial store contents the passes are given
ReplicaIds == 1..MaxReplicaId
Stores == {[i \in 0..(NODES - 1) |-> (v + i) % FrModulus] : v \in 0..MaxNodeValue}

\* r2 up to the loop of its only active pass, replicate_layer!(g, replica_id, 0, data)
R2Begin ==
    /\ pc = "ready"
    /\ inR2' = TRUE
    /\ layersRun' = <<>>
    /\ \E id \in ReplicaIds, store \in Stores :
          PassBegin(id, store, 0, FALSE, <<0, 1, 2, 3>>)

\* replicate_layer_rev!(g, replica_id, 1, data) up to its loop; r2 holds the
\* call commented out, so the pass is started on its own
ReplicateLayerRevBegin ==
    /\ pc = "ready"
    /\ inR2' = FALSE
    /\ layersRun' = layersRun
    /\ \E id \in ReplicaIds, store \in Stores :
          PassBegin(id, store, 1, TRUE, <<0, 1>>)

\* replicate_layer!: one loop iteration up to the key
\* (prefetch of node + 4, ParentsIter::new, create_key)
CreateKey ==
    /\ pc = "key"
    /\ ~revPass
    /\ rnode < NODES
    /\ LET pf == PrefetchAhead(data, prefetched, rnode, 4, FALSE)
           pfNoop == IF rnode < NODES - 4
                     THEN prefetch_noop(dataNoop, <<>>, rnode + 4, FALSE)
                     ELSE <<>>
           r == create_key(ParentsIter(rnode), data, pf, hasher)
           rNoop == create_key(ParentsIter(rnode), dataNoop, pfNoop, hasher)
       IN  /\ prefetched' = pf
           /\ keyHasher' = r.hasher
           /\ key' = finalize_into_fr(r.hasher)
           /\ keyNoop' = finalize_into_fr(rNoop.hasher)
           /\ trace' = r.events
           /\ traceNoop' = rNoop.events
    /\ pc' = "encode"
    /\ UNCHANGED <<graphVars, genVars, queryVars, replica_id, data, dataNoop,
                   written, hasher, rawNode, rnode, rlayer, revPass, inR2, layersRun,
                   rngVars, histVars, cacheVars>>

\* replicate_layer_rev!: one loop iteration up to the key
\* (prefetch of node + 2, ParentsIterRev::new, create_key_rev)
CreateKeyRev ==
    /\ pc = "key"
    /\ revPass
    /\ rnode < NODES
    /\ LET pf == PrefetchAhead(data, prefetched, rnode, 2, TRUE)
           pfNoop == IF rnode < NODES - 2
                     THEN prefetch_noop(dataNoop, <<>>, rnode + 2, TRUE)
                     ELSE <<>>
           r == create_key_rev(ParentsIterRev(rnode), data, pf, hasher)
           rNoop == create_key_rev(ParentsIterRev(rnode), dataNoop, pfNoop, hasher)
       IN  /\ prefetched' = pf
           /\ keyHasher' = r.hasher
           /\ key' = finalize_into_fr(r.hasher)
           /\ keyNoop' = finalize_into_fr(rNoop.hasher)
           /\ trace' = r.events
           /\ traceNoop' = rNoop.events
    /\ pc' = "encode"
    /\ UNCHANGED <<graphVars, genVars, queryVars, replica_id, data, dataNoop,
                   written, hasher, rawNode, rnode, rlayer, revPass, inR2, layersRun,
                   rngVars, histVars, cacheVars>>

\* the rest of the loop iteration, the same in both macros: the node is read,
\* the key is added to it and the sum is written back
EncodeNode ==
    /\ pc = "encode"
    /\ LET r == encode_node(data, prefetched, rnode, key)
           rNoop == encode_node(dataNoop, <<>>, rnode, keyNoop)
       IN  /\ rawNode' = r.raw
           /\ data' = r.data
           /\ dataNoop' = rNoop.data
           /\ trace' = trace \o r.events
           /\ traceNoop' = traceNoop \o rNoop.events
           /\ written' = written \o Writes(r.events)
    /\ rnode' = rnode + 1
    /\ pc' = IF rnode + 1 = NODES THEN "passdone" ELSE "key"
    /\ UNCHANGED <<graphVars, genVars, queryVars, replica_id, prefetched, hasher,
                   keyHasher, key, keyNoop, rlayer, revPass, inR2, layersRun,
                   rngVars, histVars, cacheVars>>

\* the end of the pass; r2 then returns Ok(())
PassEnd ==
    /\ pc = "passdone"
    /\ layersRun' = IF inR2 THEN Append(layersRun, rlayer) ELSE layersRun
    /\ pc' = "done"
    /\ UNCHANGED <<graphVars, genVars, queryVars, replica_id, storeVars, trace,
                   traceNoop, written, hasher, keyHasher, key, keyNoop, rawNode,
                   rnode, rlayer, revPass, inR2, rngVars, histVars, cacheVars>>

(***************************************************************************)
(* Specification of the replication: the graph r2 is given is built with   *)
(* the compile-time degrees, then one pass runs over the store.            *)
(***************************************************************************)
InitRepl ==
    /\ GraphNew(NODES, BASE_PARENTS, EXP_PARENTS)
    /\ seed = SeedOf(0)
    /\ graphs = 1
    /\ FreshProcess
    /\ CacheIdle
    /\ QueryIdle
    /\ StoreIdle
    /\ PassIdle

NextRepl ==
    \/ GenBegin \/ GenNode \/ GenReverse
    \/ R2Begin \/ ReplicateLayerRevBegin
    \/ CreateKey \/ CreateKeyRev \/ EncodeNode \/ PassEnd

SpecRepl == InitRepl /\ [][NextRepl]_vars

(***************************************************************************)
(* Claims about the graph (checked under Spec).                            *)
(***************************************************************************)
\* gen_parents_cache has returned
Generated == pc \notin {"new", "gen", "reverse", "abort_sample"}

\* C1: every Graph::parents(node, layer) call on a generated graph builds a
\* vector of exactly m + d entries (a DRG half of m entries, an expander half
\* of d entries), so its length assertion never fails.
C1_ParentsWidth ==
    ps # <<>> =>
        /\ Len(ps) = base_degree + expansion_degree
        /\ pc # "abort_parents"

\* C2: after gen_parents_cache, every entry of bas[node] (node >= 2) and every
\* entry of exp[node] is smaller than node.
C2_ForwardEdgesPointBack ==
    Generated =>
        /\ \A node \in NodeIds : node >= 2 =>
              \A i \in 1..Len(bas[node]) : bas[node][i] < node
        /\ \A node \in NodeIds :
              \A i \in 1..Len(exp[node]) : exp[node][i] < node

\* C2 witness: a generated graph where a sampled DRG parent is node - 1 (the
\* replacement of a self reference included) and an expander parent was kept.
C2_Witness ==
    /\ Generated
    /\ \E node \in NodeIds : node >= 2 /\ bas[node][base_degree] = node - 1
    /\ \E node \in NodeIds : exp[node] # <<>>

\* C3: after gen_parents_cache on a fresh graph, exp_reversed is the transpose
\* of exp and both hold the same number of edges.
C3_ReverseIsTranspose ==
    Generated =>
        /\ \A n1 \in NodeIds, n2 \in NodeIds :
              n1 \in Range(exp_reversed[n2]) <=> n2 \in Range(exp[n1])
        /\ SumLen(exp_reversed, nodes) = SumLen(exp, nodes)

\* C3 witness: a generated graph with at least two expander edges, two of
\* them from one node to the same parent.
C3_Witness ==
    /\ Generated
    /\ SumLen(exp, nodes) >= 2
    /\ \E n1 \in NodeIds : Len(exp[n1]) > Cardinality(Range(exp[n1]))

\* C4 as stated: in the vector Graph::parents returns, the DRG half (the first
\* m entries) is bas[n] on an even layer and the reflection of bas[N-1-n], in
\* stored order, on an odd layer; the expander half (the next d entries) is
\* exp[n] on an even layer and exp_reversed[n] on an odd layer.
C4_HalvesAreTheLists ==
    out # <<>> =>
        LET r == nodes - 1 - qnode
            even == qlayer % 2 = 0
        IN  /\ SubSeq(out, 1, base_degree) =
                  (IF even THEN bas[qnode]
                   ELSE [i \in 1..Len(bas[r]) |-> nodes - 1 - bas[r][i]])
            /\ SubSeq(out, base_degree + 1, base_degree + expansion_degree) =
                  (IF even THEN exp[qnode] ELSE exp_reversed[qnode])

\* C4 amended: the vector Graph::parents builds is the DRG list (bas[n], or
\* the reflection of bas[N-1-n] in stored order) followed by zeros up to
\* width m when it is shorter, then the expander list (exp[n], or
\* exp_reversed[n]) followed by zeros up to width d when it is shorter.
C4_HalvesArePaddedLists ==
    ps # <<>> =>
        LET r == nodes - 1 - qnode
            even == qlayer % 2 = 0
            B == IF even THEN bas[qnode] ELSE bas[r]
            E == IF even THEN exp[qnode] ELSE exp_reversed[qnode]
            wb == Max(Len(B), base_degree)
            we == Max(Len(E), expansion_degree)
        IN  /\ Len(ps) = wb + we
            /\ \A i \in 1..wb :
                  ps[i] = IF i > Len(B) THEN 0
                          ELSE IF even THEN B[i] ELSE nodes - 1 - B[i]
            /\ \A i \in 1..we :
                  ps[wb + i] = IF i > Len(E) THEN 0 ELSE E[i]
            /\ out \in {<<>>, ps}

\* C4 witness: a returned odd-layer query whose reflected DRG list is not
\* constant and whose expander list is non-empty and shorter than d.
C4_Witness ==
    /\ out # <<>>
    /\ out = ps
    /\ qlayer % 2 = 1
    /\ Cardinality(Range(bas[nodes - 1 - qnode])) > 1
    /\ exp_reversed[qnode] # <<>>
    /\ Len(exp_reversed[qnode]) < expansion_degree

(***************************************************************************)
(* Claims about the replication (checked under SpecRepl).                  *)
(***************************************************************************)
\* C5: in every pass, each parent index node i folds into its key is
\* strictly smaller than i (earlier in the processing order 0..N-1), so no
\* node is its own parent.
C5_ParentsEarlier ==
    pc = "encode" => \A k \in 1..Len(trace) : trace[k][2] < rnode

\* C6: when r2 returns it has replicated every layer 0..LAYERS-1, in
\* increasing order.
C6_AllLayersRun ==
    (pc = "done" /\ inR2) => layersRun = [i \in 1..LAYERS |-> i - 1]

\* the indices a pass has written when its cursor is at node
WrittenUpTo(node) == [i \in 1..node |-> i - 1]

C7_WrittenInOrder ==
    pc \in {"key", "encode", "passdone", "done"} =>
        /\ written = WrittenUpTo(rnode)
        /\ pc \in {"passdone", "done"} => rnode = NODES

C7_WriteOwnPositionOnly ==
    /\ pc = "key" => data' = data
    /\ pc = "encode" => \A j \in 0..(NODES - 1) : j # rnode => data'[j] = data[j]

\* C7: within one pass every node index 0..N-1 is written exactly once, in
\* ascending order whatever the parity; the write of node i changes position i
\* only, and reading the parents changes no position.
C7_WriteOncePerNode == []C7_WrittenInOrder /\ [][C7_WriteOwnPositionOnly]_vars

\* C7 witness: a finished direction-aware pass that wrote 0..N-1 in order.
C7_Witness ==
    /\ pc = "done"
    /\ revPass
    /\ written = WrittenUpTo(NODES)
    /\ written # <<>>

\* the parent vector of the node a pass is at
PassParents(node) == parents(node, IF revPass THEN 1 ELSE 0)

FrSub(a, b) == (a - b + FrModulus) % FrModulus

\* a node of the current pass has been encoded
Encoded == pc \in {"key", "passdone", "done"} /\ written # <<>>

\* the value the last encoding step stored
LastEncoded == data[written[Len(written)]]

\* C10 as stated: subtracting the key from the encoded value recovers the
\* unencoded value, and encoding the encoded value again with the same key
\* gives neither the encoded nor the unencoded value, for every value and key.
C10_InvertibleNeverIdempotent ==
    Encoded =>
        /\ FrSub(LastEncoded, key) = rawNode
        /\ add_assign(LastEncoded, key) # LastEncoded
        /\ add_assign(LastEncoded, key) # rawNode

\* C10 amended: subtracting the key from the encoded value recovers the
\* unencoded value for every value and key; encoding again with the same key
\* gives a different value whenever the key is not the zero of the field.
C10_InvertibleNonZeroKey ==
    Encoded =>
        /\ FrSub(LastEncoded, key) = rawNode
        /\ key # 0 =>
              /\ add_assign(LastEncoded, key) # LastEncoded
              /\ add_assign(LastEncoded, key) # rawNode

\* C10 witness: a node was encoded with a non-zero key and the sum wrapped
\* around the field order.
C10_Witness ==
    /\ Encoded
    /\ key # 0
    /\ rawNode + key >= FrModulus

(***************************************************************************)
(* Claims about the sampling and the reverse lists (checked under Spec).   *)
(***************************************************************************)
\* node 2 was sampled by gen_parents_cache
Sampled2 == <<rng_seed(seed, 2), base_degree>> \in DOMAIN chacha

\* C15: for a node >= 2, a base degree of 1..5, each k below it and whatever
\* the two draws return, logi >= 1, jj >= 2, the range of the backward
\* distance [max(jj/2, 2), jj] is not empty, node*m + k - back_dist does not
\* go below zero and the candidate is at most node: the sampling never aborts.
C15_SamplingInBounds ==
    /\ pc # "abort_sample"
    /\ (pc = "gen" /\ gnode >= 2) =>
          \A k \in 0..(base_degree - 1), raw1 \in 0..MaxRaw, raw2 \in 0..MaxRaw :
             LET m == base_degree
                 logi == Logi(gnode, m)
                 jj == JJ(gnode, m, k, DrawJ(raw1, gnode, m))
                 low == Max(jj \div 2, 2)
                 back_dist == BackDist(raw2, jj)
             IN  /\ m \in 1..BASE_ARRAY
                 /\ logi >= 1
                 /\ jj >= 2
                 /\ low <= jj
                 /\ back_dist \in low..jj
                 /\ gnode * m + k - back_dist >= 0
                 /\ Candidate(gnode, m, k, raw1, raw2) \in 0..gnode

\* node 2 was sampled, and draws exist that reach back to node 0 and that
\* yield node 2 itself
C15_Witness ==
    /\ pc \in {"gen", "reverse", "ready"}
    /\ Sampled2
    /\ \E k \in 0..(base_degree - 1), raw1 \in 0..MaxRaw, raw2 \in 0..MaxRaw :
          /\ 2 * base_degree + k
                - BackDist(raw2, JJ(2, base_degree, k, DrawJ(raw1, 2, base_degree))) = 0
    /\ \E k \in 0..(base_degree - 1), raw1 \in 0..MaxRaw, raw2 \in 0..MaxRaw :
          Candidate(2, base_degree, k, raw1, raw2) = 2

\* C16: after gen_parents_cache on a freshly constructed graph no reverse
\* list is longer than the expansion degree, so the expander half of an odd
\* layer fits its d slots.
C16_ReverseListsWithinDegree ==
    Generated =>
        \A j \in NodeIds :
            /\ Len(exp_reversed[j]) <= expansion_degree
            /\ Len(pad_parents(exp_parents(j, 1), expansion_degree)) = expansion_degree

\* a generated graph with a reverse list that is full
C16_Witness ==
    /\ Generated
    /\ expansion_degree >= 2
    /\ \E j \in NodeIds : Len(exp_reversed[j]) = expansion_degree

(***************************************************************************)
(* Claims about the prefetches of a pass (checked under SpecRepl).         *)
(***************************************************************************)
InPass == pc \in {"key", "encode", "passdone", "done"}
PrefetchedIds == {prefetched[i].index : i \in 1..Len(prefetched)}

C14_RegenerationIdempotent ==
    (pc = "ready" /\ graphs = 1 /\ gens >= 2) =>
        /\ bas = firstGraph.bas
        /\ exp = firstGraph.exp
        /\ exp_reversed = firstGraph.exp_reversed
        /\ SumLen(exp_reversed, nodes) = SumLen(exp, nodes)

\* the further graph is generated once
SecondGenerated == pc = "ready" /\ graphs = 2 /\ gens = 1

\* the two graphs were constructed from the same inputs
SameInputs ==
    /\ nodes = firstGraph.nodes
    /\ base_degree = firstGraph.base_degree
    /\ expansion_degree = firstGraph.expansion_degree
    /\ seed = firstGraph.seed

\* C12: two graphs constructed with the same (N, m, d, seed) and generated
\* have the same bas, exp and exp_reversed; and while the second is being
\* generated, the entries of each node already filled are those of the
\* first graph, whatever the entries of the nodes still to come.
C12_SameInputsSameGraph ==
    /\ (SecondGenerated /\ SameInputs) =>
          /\ bas = firstGraph.bas
          /\ exp = firstGraph.exp
          /\ exp_reversed = firstGraph.exp_reversed
    /\ (graphs = 2 /\ gens = 1 /\ pc = "gen" /\ SameInputs) =>
          \A node \in 0..(gnode - 1) :
             /\ bas[node] = firstGraph.bas[node]
             /\ exp[node] = firstGraph.exp[node]

\* a second graph of at least three nodes with expander edges, built from
\* the inputs of the first
C12_Witness ==
    /\ SecondGenerated
    /\ nodes = firstGraph.nodes
    /\ nodes >= 3
    /\ seed = SeedOf(MaxSeed)
    /\ SumLen(exp_reversed, nodes) >= 1

(***************************************************************************)
(* Claims about the cached graph (checked under SpecCache).                *)
(***************************************************************************)
Returned == cpc = "returned"

\* C11: the graph read from g.json has the nodes, base_degree,
\* expansion_degree, seed, bas, exp and exp_reversed of the graph that was
\* written to it, and reading it runs no gen_parents_cache: what was drawn
\* and precomputed is what the generation of the written graph drew.
C11_RoundTrip ==
    /\ (Returned /\ calls = 1) => from_str(to_string(GraphValue)) = GraphValue
    /\ Returned => from_str(file[1].json) = firstGraph
    /\ (Returned /\ calls > 1) => GraphValue = firstGraph
    /\ (Returned /\ calls > 1) => gens = 0
    /\ Returned =>
          /\ DOMAIN chacha = {<<rng_seed(firstGraph.seed, n), firstGraph.base_degree>> :
                                 n \in 2..(firstGraph.nodes - 1)}
          /\ DOMAIN feistelTab = {firstGraph.nodes * firstGraph.expansion_degree}

\* a graph with edges in every list and a seed of two-digit words was read back
C11_Witness ==
    /\ Returned
    /\ calls > 1
    /\ nodes >= 3
    /\ seed = SeedOf(MaxSeed)
    /\ SumLen(exp_reversed, nodes) >= 2
    /\ \E j \in NodeIds : bas[j] # Zeros(BASE_ARRAY)

\* C13 (state part): a call that returned left g.json holding the graph it
\* returned, which is the graph of the first call; gen_parents_cache ran
\* once in all.
C13_ReturnsFirstGraph ==
    /\ Returned => /\ file # <<>>
                   /\ GraphValue = from_str(file[1].json)
                   /\ GraphValue = firstGraph
    /\ graphs <= 1
    /\ cpc = "miss" => calls = 1

\* C13 (step part): once g.json exists it is not written again, no call
\* enters the generation, draws or precomputes, and the graph a call
\* returns is the one in the file
C13_CacheNeverRewritten ==
    file # <<>> =>
        /\ file' = file
        /\ pc' = "ready"
        /\ rngVars' = rngVars
        /\ graphs' = graphs
        /\ calls' # calls => /\ cpc' = "returned"
                             /\ GraphValue' = from_str(file[1].json)

\* C13: over any sequence of new_cached calls, the first call generates the
\* graph from its arguments and writes it to g.json; every later call
\* returns the graph in g.json without generating and without writing the
\* file, whatever its arguments.
C13_CacheSequence == []C13_ReturnsFirstGraph /\ [][C13_CacheNeverRewritten]_vars

\* a third call, with other arguments than the first, returned the graph
\* of the first
C13_Witness ==
    /\ Returned
    /\ calls >= 3
    /\ argsDiffer
    /\ nodes >= 3
    /\ GraphValue = firstGraph

=============================================================================
